---- MODULE Spec2Model ----
(***************************************************************************)
(* Model of bezier_mesh (src/src/main.rs): a Bevy application whose two    *)
(* startup systems, setup and build_mesh, extrude an 8-vertex road profile *)
(* along a cubic Bezier curve through four ControlPoint entities.          *)
(*                                                                         *)
(* Arithmetic is exact: a Vec3 is a triple of integers, a curve parameter  *)
(* t is a fraction [n, l] (or NaN for 0/0), and cubic_bezier returns the   *)
(* numerators of the point over the denominator l^3.  f32 rounding is not  *)
(* modelled.  A normalized vector is kept as its primitive integer         *)
(* direction, which identifies the unit vector exactly.                    *)
(***************************************************************************)
EXTENDS Integers, Sequences, FiniteSets, TLC

VARIABLES
    pc,         \* position of the app: "setup", "build_mesh", "running", "panicked"
    config,     \* the Config resource
    points,     \* ControlPoint entities of the world, in query iteration order
    spheres,    \* number of debug-sphere entities in the world
    roads,      \* mesh handles of the road PbrBundle entities in the world
    scene,      \* number of light and camera entities in the world
    commands,   \* the deferred Commands queue, not yet applied to the world
    meshes,     \* Assets<Mesh>: a handle is a position in this sequence
    spline,     \* translations bound to (tfm1..tfm4) by the last build_mesh, <<>> if none
    vertices,   \* the local `vertices` of the last mesh construction
    triangles,  \* the local `triangles` of the last mesh construction
    frame,      \* number of update ticks run
    bez         \* one evaluation of cubic_bezier: its arguments and its result

vars == <<pc, config, points, spheres, roads, scene, commands, meshes,
          spline, vertices, triangles, frame, bez>>

----------------------------------------------------------------------------
(* Bounds of the model *)

\* largest detail drawn as an input of an isolated build_mesh run
MaxDetail == 3
\* largest number of ControlPoint entities drawn as an input
MaxPoints == 8
\* up to this many points every storage order is drawn
FullPermLen == 4
\* update ticks modelled after startup
MaxFrames == 2
\* denominator of the parameters t drawn for an isolated cubic_bezier call
BezDen == 3

----------------------------------------------------------------------------
(* Vec3 and exact fractions *)

\* The f32 NaN: a parameter 0/0 is [n |-> 0, l |-> 0], a NaN vector is <<>>,
\* a NaN point has den = 0.
NaNVec == <<>>
NaNPoint == [num |-> NaNVec, den |-> 0]

Abs(x) == IF x < 0 THEN -x ELSE x

RECURSIVE Gcd(_, _)
Gcd(a, b) == IF b = 0 THEN a ELSE Gcd(b, a % b)

Lcm(a, b) == (a * b) \div Gcd(a, b)

VAdd(u, v) == <<u[1] + v[1], u[2] + v[2], u[3] + v[3]>>
VSub(u, v) == <<u[1] - v[1], u[2] - v[2], u[3] - v[3]>>
VMul(u, k) == <<u[1] * k, u[2] * k, u[3] * k>>
VDiv(u, k) == <<u[1] \div k, u[2] \div k, u[3] \div k>>
VGcd(u) == Gcd(Gcd(Abs(u[1]), Abs(u[2])), Abs(u[3]))

\* Vec3::Y
VecY == <<0, 1, 0>>

\* Vec3::cross
Cross(u, v) ==
    IF u = NaNVec \/ v = NaNVec THEN NaNVec
    ELSE <<u[2] * v[3] - u[3] * v[2],
           u[3] * v[1] - u[1] * v[3],
           u[1] * v[2] - u[2] * v[1]>>

\* Vec3::normalize: v / |v|, kept as the primitive direction of v;
\* the zero vector (0/0) and NaN give NaN.
Normalize(v) ==
    IF v = NaNVec \/ v = <<0, 0, 0>> THEN NaNVec ELSE VDiv(v, VGcd(v))

\* A point num/den in lowest terms.
Canon(p) ==
    IF p.den = 0 THEN NaNPoint
    ELSE LET g == Gcd(VGcd(p.num), p.den)
         IN  [num |-> VDiv(p.num, g), den |-> p.den \div g]

\* The difference of two points over the same denominator, as a direction.
PointSub(p, q) ==
    IF p.den = 0 \/ q.den = 0 THEN NaNVec ELSE VSub(p.num, q.num)

----------------------------------------------------------------------------
(* cubic_bezier *)

\* Vec3::lerp(self, rhs, s) = self + (rhs - self) * s with s = t.n / t.l,
\* on numerators: the result's denominator is the arguments' times t.l.
MutLerp(x, y, t) == VAdd(VMul(y, t.l), VMul(VSub(x, y), t.n))
Lerp(x, y, t) == VAdd(VMul(x, t.l), VMul(VSub(y, x), t.n))

\* fn cubic_bezier(a, b, c, d, t): De Casteljau; numerators over t.l^3.
cubic_bezier(a, b, c, d, t) ==
    IF t.l = 0 THEN NaNPoint
    ELSE LET ab == Lerp(a, b, t)
             bc == Lerp(b, c, t)
             cd == Lerp(c, d, t)
             abbc == Lerp(ab, bc, t)
             bccd == Lerp(bc, cd, t)
         IN  [num |-> Lerp(abbc, bccd, t), den |-> t.l * t.l * t.l]

----------------------------------------------------------------------------
(* The mesh construction shared by setup and build_mesh *)

\* config.detail as set by main
InitialDetail == 20

\* let local_vertices = vec![...], in tenths
local_vertices ==
    << <<-5, 3, 0>>, <<-3, 3, 0>>, <<-2, 2, 0>>, <<2, 2, 0>>,
       <<3, 3, 0>>, <<5, 3, 0>>, <<5, 0, 0>>, <<-5, 0, 0>> >>

\* let triangles: Vec<u32> = vec![...]
TriangleTemplate == <<0, 8, 15, 0, 15, 7, 0, 9, 8, 0, 1, 9>>

\* 1 / 0.01: the finite-difference step of the tangent is 1/EpsInv
EpsInv == 100

\* Common denominator of i / detail and 0.01 (0 when detail = 0: 0/0 is NaN).
Den(detail) == IF detail = 0 THEN 0 ELSE Lcm(detail, EpsInv)

\* t = i as f32 / detail as f32, shifted by k * 0.01
Param(i, detail, k) ==
    IF detail = 0 THEN [n |-> 0, l |-> 0]
    ELSE LET l == Den(detail)
         IN  [n |-> i * (l \div detail) + k * (l \div EpsInv), l |-> l]

\* The samples of (0..=config.detail)
MutSamples(detail) == IF detail = 0 THEN <<>> ELSE [k \in 1..detail |-> k - 1]
Samples(detail) == [k \in 1..(detail + 1) |-> k - 1]

\* One world vertex: curve_point + x * local_x + y * local_y + z * local_z,
\* kept as its terms.
WorldVertex(ps, i, detail, local_vertex) ==
    LET curve_point == cubic_bezier(ps[1], ps[2], ps[3], ps[4], Param(i, detail, 0))
        prev == cubic_bezier(ps[1], ps[2], ps[3], ps[4], Param(i, detail, -1))
        next == cubic_bezier(ps[1], ps[2], ps[3], ps[4], Param(i, detail, 1))
        local_z == Normalize(PointSub(prev, next))
        local_y == VecY
        local_x == Normalize(Cross(local_y, local_z))
    IN  [curve_point |-> Canon(curve_point),
         local_vertex |-> local_vertex,
         local_x |-> local_x, local_y |-> local_y, local_z |-> local_z]

\* The `vertices` vector: for each sample, the ring of local_vertices mapped
\* to world space, rings concatenated in sample order.
RingVertices(ps, detail) ==
    LET samples == Samples(detail)
        m == Len(local_vertices)
    IN  [j \in 1..(Len(samples) * m) |->
            WorldVertex(ps, samples[((j - 1) \div m) + 1], detail,
                        local_vertices[((j - 1) % m) + 1])]

\* Mesh::new, insert_attribute, set_indices, duplicate_vertices and
\* compute_flat_normals: every index is replaced by a copy of its vertex, the
\* index buffer is dropped and each triangle's corners get its face normal.
\* An index past the end of the positions panics (ok = FALSE).
FlatMesh(vs, tris) ==
    IF \E k \in 1..Len(tris) : tris[k] >= Len(vs)
    THEN [ok |-> FALSE, position |-> <<>>, normal |-> <<>>, indices |-> <<>>]
    ELSE LET position == [k \in 1..Len(tris) |-> vs[tris[k] + 1]]
             face(k) == ((k - 1) \div 3) * 3
         IN  [ok |-> TRUE,
              position |-> position,
              normal |-> [k \in 1..Len(tris) |->
                            <<position[face(k) + 1], position[face(k) + 2],
                              position[face(k) + 3]>>],
              indices |-> <<>>]

----------------------------------------------------------------------------
(* The ECS world, the Commands queue and the mesh assets *)

Cmd(kind, index, translation, mesh) ==
    [spawn |-> kind, index |-> index, translation |-> translation, mesh |-> mesh]

\* Mesh::from(shape::UVSphere { radius, .. }), radius in hundredths
UVSphere(radius) ==
    [ok |-> TRUE, shape |-> "UVSphere", radius |-> radius,
     position |-> <<>>, normal |-> <<>>, indices |-> <<>>]

\* The road mesh asset made of the result of FlatMesh
RoadAsset(m) ==
    [ok |-> TRUE, shape |-> "TriangleList", radius |-> 0,
     position |-> m.position, normal |-> m.normal, indices |-> m.indices]

IsRoad(m) == m.shape = "TriangleList"

\* The handles of the road meshes among the assets
RoadHandles(ms) == {h \in 1..Len(ms) : IsRoad(ms[h])}

\* The debug loop: one UVSphere mesh asset and one spawn command per vertex.
DebugMeshes(vs) == [k \in 1..Len(vs) |-> UVSphere(2)]
DebugCmds(vs, base) ==
    [k \in 1..Len(vs) |-> Cmd("debug", 0, vs[k], base + k)]

\* .sorted_by_key(|(p, _)| p.0): a stable sort by ControlPoint index
RECURSIVE InsertByKey(_, _)
InsertByKey(s, e) ==
    IF s = <<>> THEN <<e>>
    ELSE IF s[Len(s)].index <= e.index THEN Append(s, e)
    ELSE Append(InsertByKey(SubSeq(s, 1, Len(s) - 1), e), s[Len(s)])

RECURSIVE SortFrom(_, _, _)
SortFrom(q, k, acc) ==
    IF k > Len(q) THEN acc ELSE SortFrom(q, k + 1, InsertByKey(acc, q[k]))

MutUnsorted_SortedByKey(q) == q
SortedByKey(q) == SortFrom(q, 1, <<>>)

\* .tuples::<(_, _, _, _)>(): consecutive groups of four, an incomplete
\* trailing group dropped
RECURSIVE Tuples(_)
Tuples(s) ==
    IF Len(s) < 4 THEN <<>>
    ELSE <<SubSeq(s, 1, 4)>> \o Tuples(SubSeq(s, 5, Len(s)))

\* .last(): Option of the final group (<<>> is None)
MutFirst_LastTuple(groups) == IF groups = <<>> THEN <<>> ELSE groups[1]
LastTuple(groups) == IF groups = <<>> THEN <<>> ELSE groups[Len(groups)]

\* The `if let Some((tfm1, tfm2, tfm3, tfm4)) = point_q...last()` binding,
\* as the four translations.
MutAny_BoundTransforms(q) ==
    IF q = <<>> THEN <<>>
    ELSE LET s == SortedByKey(q)
         IN  [k \in 1..4 |-> s[IF k <= Len(s) THEN k ELSE Len(s)].translation]
BoundTransforms(q) ==
    LET sorted == SortedByKey(q)
        tfms == [k \in 1..Len(sorted) |-> sorted[k].translation]
    IN  LastTuple(Tuples(tfms))

\* let control_points = (0..4).map(|i| Vec3::new(i as f32 * 3.0, 0.0, 0.0))
control_points == [k \in 1..4 |-> <<(k - 1) * 3, 0, 0>>]

----------------------------------------------------------------------------
(* The systems *)

\* fn setup: light, camera, the four ControlPoint entities, then the road
\* mesh through control_points in their own order.
setup ==
    /\ pc = "setup"
    /\ LET cp_meshes == [k \in 1..4 |-> UVSphere(5)]
           cp_cmds == [k \in 1..4 |->
                         Cmd("ControlPoint", k - 1, control_points[k], Len(meshes) + k)]
           vs == RingVertices(control_points, config.detail)
           tris == TriangleTemplate
           mesh == FlatMesh(vs, tris)
           ms == meshes \o cp_meshes \o DebugMeshes(vs)
           cs == commands \o <<Cmd("light", 0, <<4, 8, 4>>, 0),
                               Cmd("camera", 0, <<0, 0, 0>>, 0)>>
                          \o cp_cmds \o DebugCmds(vs, Len(meshes) + 4)
       IN  /\ vertices' = vs
           /\ triangles' = tris
           /\ IF mesh.ok
              THEN /\ meshes' = Append(ms, RoadAsset(mesh))
                   /\ commands' = Append(cs, Cmd("road", 0, <<0, 0, 0>>, Len(ms) + 1))
                   /\ pc' = "build_mesh"
              ELSE /\ meshes' = ms
                   /\ commands' = cs
                   /\ pc' = "panicked"
    /\ UNCHANGED <<config, points, spheres, roads, scene, spline, frame, bez>>

\* fn build_mesh
build_mesh ==
    /\ pc = "build_mesh"
    /\ LET tfms == BoundTransforms(points)
       IN  IF tfms = <<>>
           THEN /\ spline' = <<>>
                /\ pc' = "running"
                /\ UNCHANGED <<vertices, triangles, meshes, commands>>
           ELSE LET vs == RingVertices(tfms, config.detail)
                    tris == TriangleTemplate
                    mesh == FlatMesh(vs, tris)
                    ms == meshes \o DebugMeshes(vs)
                    cs == commands \o DebugCmds(vs, Len(meshes))
                IN  /\ spline' = tfms
                    /\ vertices' = vs
                    /\ triangles' = tris
                    /\ IF mesh.ok
                       THEN /\ meshes' = Append(ms, RoadAsset(mesh))
                            /\ commands' =
                                 Append(cs, Cmd("road", 0, <<0, 0, 0>>, Len(ms) + 1))
                            /\ pc' = "running"
                       ELSE /\ meshes' = ms
                            /\ commands' = cs
                            /\ pc' = "panicked"
    /\ UNCHANGED <<config, points, spheres, roads, scene, frame, bez>>

\* The scheduler applies the queued commands to the world at a system
\* boundary: between the chained startup systems or after them.
CmdsOf(kind) == SelectSeq(commands, LAMBDA c : c.spawn = kind)

ApplyBuffers ==
    /\ pc \in {"build_mesh", "running"}
    /\ commands # <<>>
    /\ points' = points \o [k \in 1..Len(CmdsOf("ControlPoint")) |->
                              [index |-> CmdsOf("ControlPoint")[k].index,
                               translation |-> CmdsOf("ControlPoint")[k].translation]]
    /\ spheres' = spheres + Len(CmdsOf("debug"))
    /\ roads' = roads \o [k \in 1..Len(CmdsOf("road")) |-> CmdsOf("road")[k].mesh]
    /\ scene' = scene + Len(CmdsOf("light")) + Len(CmdsOf("camera"))
    /\ commands' = <<>>
    /\ UNCHANGED <<pc, config, meshes, spline, vertices, triangles, frame, bez>>

\* One update tick: main registers startup systems only, so no system of
\* this program runs in the update schedule.
Tick ==
    /\ pc = "running"
    /\ commands = <<>>
    /\ frame < MaxFrames
    /\ frame' = frame + 1
    /\ UNCHANGED <<pc, config, points, spheres, roads, scene, commands, meshes,
                   spline, vertices, triangles, bez>>

\* Translations a control point is dragged to
MoveTargets == {<<0, 1, 0>>, <<3, 0, 2>>}

\* The transform gizmo drags a ControlPoint entity (GizmoTransformable).
MoveControlPoint ==
    /\ pc = "running"
    /\ commands = <<>>
    /\ \E k \in 1..Len(points), p \in MoveTargets :
          /\ points[k].translation # p
          /\ points' = [points EXCEPT ![k].translation = p]
    /\ UNCHANGED <<pc, config, spheres, roads, scene, commands, meshes,
                   spline, vertices, triangles, frame, bez>>

\* The resource inspector edits Config.detail (any usize; bounded here).
EditDetail ==
    /\ pc = "running"
    /\ commands = <<>>
    /\ \E d \in (0..MaxDetail) \cup {InitialDetail} :
          /\ d # config.detail
          /\ config' = [config EXCEPT !.detail = d]
    /\ UNCHANGED <<pc, points, spheres, roads, scene, commands, meshes,
                   spline, vertices, triangles, frame, bez>>

NoBez == [a |-> <<0, 0, 0>>, b |-> <<0, 0, 0>>, c |-> <<0, 0, 0>>, d |-> <<0, 0, 0>>,
          t |-> [n |-> 0, l |-> 0], done |-> FALSE, out |-> NaNPoint]

\* fn main: Config { detail: 20 }, an empty world, the startup schedule
\* (setup, build_mesh).chain() about to run.
Init ==
    /\ pc = "setup"
    /\ config = [detail |-> InitialDetail]
    /\ points = <<>>
    /\ spheres = 0
    /\ roads = <<>>
    /\ scene = 0
    /\ commands = <<>>
    /\ meshes = <<>>
    /\ spline = <<>>
    /\ vertices = <<>>
    /\ triangles = <<>>
    /\ frame = 0
    /\ bez = NoBez

Next ==
    \/ setup
    \/ build_mesh
    \/ ApplyBuffers
    \/ Tick
    \/ MoveControlPoint
    \/ EditDetail

Spec == Init /\ [][Next]_vars

----------------------------------------------------------------------------
(* build_mesh run on its own, on a world and a Config drawn from bounded sets *)

\* Storage orders of n entities, as the sequence of entity identities 0..n-1:
\* every order up to FullPermLen entities, rotations and the reversal above.
Orders(n) ==
    IF n <= FullPermLen
    THEN {s \in [1..n -> 0..(n - 1)] : \A i, j \in 1..n : i # j => s[i] # s[j]}
    ELSE {[k \in 1..n |-> (k - 1 + r) % n] : r \in 0..(n - 1)}
         \cup {[k \in 1..n |-> n - k]}

\* Translations of the entities: the line setup spawns, or a space curve.
Layouts == {"line", "curve"}
LayoutPos(layout, e) ==
    IF layout = "line" THEN <<3 * e, 0, 0>> ELSE <<e, (e * e) % 3, e % 2>>

\* The road mesh asset setup publishes for Config { detail: 20 }
PriorRoad ==
    RoadAsset(FlatMesh(RingVertices(control_points, InitialDetail), TriangleTemplate))

InitBuild ==
    /\ pc = "build_mesh"
    /\ \E d \in 0..MaxDetail : config = [detail |-> d]
    /\ \E n \in 0..MaxPoints, layout \in Layouts, dup \in BOOLEAN :
          \E order \in Orders(n) :
             points = [k \in 1..n |->
                         [index |-> IF dup THEN order[k] \div 2 ELSE order[k],
                          translation |-> LayoutPos(layout, order[k])]]
    /\ spheres = 0
    /\ scene = 0
    /\ commands = <<>>
    /\ \E prior \in BOOLEAN :
          /\ meshes = IF prior THEN <<PriorRoad>> ELSE <<>>
          /\ roads = IF prior THEN <<1>> ELSE <<>>
    /\ spline = <<>>
    /\ vertices = <<>>
    /\ triangles = <<>>
    /\ frame = 0
    /\ bez = NoBez

NextBuild ==
    \/ build_mesh
    \/ ApplyBuffers

SpecBuild == InitBuild /\ [][NextBuild]_vars

----------------------------------------------------------------------------
(* cubic_bezier called on its own, on arguments drawn from bounded sets *)

BezPoints == {<<0, 0, 0>>, <<3, 0, 0>>, <<1, 2, -1>>, <<-2, 1, 4>>}
BezParams == {[n |-> k, l |-> BezDen] : k \in (-1)..(BezDen + 1)}

InitBezier ==
    /\ pc = "running"
    /\ config = [detail |-> InitialDetail]
    /\ points = <<>>
    /\ spheres = 0
    /\ roads = <<>>
    /\ scene = 0
    /\ commands = <<>>
    /\ meshes = <<>>
    /\ spline = <<>>
    /\ vertices = <<>>
    /\ triangles = <<>>
    /\ frame = 0
    /\ \E a \in BezPoints, b \in BezPoints, c \in BezPoints, d \in BezPoints,
          t \in BezParams :
          bez = [a |-> a, b |-> b, c |-> c, d |-> d, t |-> t,
                 done |-> FALSE, out |-> NaNPoint]

EvaluateBezier ==
    /\ ~bez.done
    /\ bez' = [bez EXCEPT !.done = TRUE,
                          !.out = cubic_bezier(bez.a, bez.b, bez.c, bez.d, bez.t)]
    /\ UNCHANGED <<pc, config, points, spheres, roads, scene, commands, meshes,
                   spline, vertices, triangles, frame>>

NextBezier == EvaluateBezier

SpecBezier == InitBezier /\ [][NextBezier]_vars

----------------------------------------------------------------------------
(* Properties *)

\* A build_mesh run has finished (normally or by a panic).
BuildRan == pc \in {"running", "panicked"}
\* The last build_mesh run bound four transforms and constructed a mesh.
Built == BuildRan /\ spline # <<>>

DistinctIndices(q) ==
    \A i, j \in 1..Len(q) : i # j => q[i].index # q[j].index

\* The place of entity k of q in ascending index order, entities of equal
\* index in storage order; counted, not sorted.
StableRank(q, k) ==
    1 + Cardinality({j \in 1..Len(q) :
                       \/ q[j].index < q[k].index
                       \/ (q[j].index = q[k].index /\ j < k)})
AtRank(q, r) == q[CHOOSE k \in 1..Len(q) : StableRank(q, k) = r]

\* The translations of the last complete group of four of q in index order.
LastGroup(q) ==
    LET base == 4 * (Len(q) \div 4) - 4
    IN  <<AtRank(q, base + 1).translation, AtRank(q, base + 2).translation,
          AtRank(q, base + 3).translation, AtRank(q, base + 4).translation>>

\* The road meshes already among the assets before the build_mesh run: a
\* run adds its debug spheres first, so only an earlier road sits at handle 1.
PriorRoads == IF meshes # <<>> /\ IsRoad(meshes[1]) THEN 1 ELSE 0

C2_TemplatePerRingPair ==
    (Built /\ config.detail >= 2) =>
        triangles =
            [j \in 1..((config.detail - 1) * Len(TriangleTemplate)) |->
                TriangleTemplate[((j - 1) % Len(TriangleTemplate)) + 1]
                + ((j - 1) \div Len(TriangleTemplate)) * Len(local_vertices)]

C4_InvalidDetailRejected ==
    (BuildRan /\ config.detail < 2) =>
        /\ pc = "running"
        /\ vertices = <<>> /\ triangles = <<>>
        /\ Len(meshes) = PriorRoads
        /\ commands = <<>> /\ spheres = 0 /\ Len(roads) = PriorRoads

\* C5: a build_mesh run that finds fewer than 4 control points changes
\* nothing: no vertices or indices, no mesh asset, no spawn command, and the
\* assets and entities published before stay as they were.
C5_SkippedWhenFewerThanFour ==
    [][(pc = "build_mesh" /\ Len(points) < 4) =>
          /\ spline' = <<>>
          /\ UNCHANGED <<vertices, triangles, meshes, commands, points, spheres,
                         roads, scene, config>>]_vars

C5_Witness ==
    /\ pc = "running" /\ Len(points) = 3
    /\ meshes = <<PriorRoad>> /\ roads = <<1>>

\* C6: there is never more than one road mesh artifact: a build that finds
\* one published reuses it instead of adding a second mesh asset or entity.
C6_SingleArtifact ==
    /\ Cardinality(RoadHandles(meshes)) <= 1
    /\ Len(roads) <= 1

\* C7: with exactly 4 control points of distinct indices, P0..P3 are their
\* translations in ascending index order whatever the storage order, and
\* the buffers are those of that spline.
C7_OrderIndependent ==
    (BuildRan /\ Len(points) = 4 /\ DistinctIndices(points)) =>
        LET P == <<AtRank(points, 1).translation, AtRank(points, 2).translation,
                   AtRank(points, 3).translation, AtRank(points, 4).translation>>
        IN  /\ spline = P
            /\ vertices = RingVertices(P, config.detail)
            /\ triangles = TriangleTemplate

C7_Witness ==
    /\ pc = "running" /\ Len(points) = 4 /\ DistinctIndices(points)
    /\ points[1].index > points[2].index
    /\ points[3].index > points[4].index
    /\ spline # <<>>

\* C8: an update tick recomputes and republishes, so after a tick the
\* displayed road mesh is the one built from the current control points and
\* detail.  (Config has no auto_update field; the claim's auto_update = true
\* case is stated for every tick.)
C8_TickRecomputes ==
    [][(frame' = frame + 1 /\ Len(points') >= 4) =>
          \E k \in 1..Len(roads') :
             meshes'[roads'[k]] =
                RoadAsset(FlatMesh(RingVertices(LastGroup(points'), config'.detail),
                                   TriangleTemplate))]_vars

\* C9: cubic_bezier returns its first control point at t = 0 and its last
\* at t = 1.
C9_Endpoints ==
    bez.done =>
        /\ bez.t.n = 0 => Canon(bez.out) = [num |-> bez.a, den |-> 1]
        /\ bez.t.n = bez.t.l => Canon(bez.out) = [num |-> bez.d, den |-> 1]

C9_Witness ==
    /\ bez.done /\ bez.t.n = bez.t.l
    /\ bez.a # bez.d /\ bez.b # bez.d /\ bez.c # bez.d
    /\ Canon(bez.out).num = bez.d

\* C10: with n >= 4 control points build_mesh uses the last complete group
\* of four in index order only (sorted places 4*floor(n/4)-3 .. 4*floor(n/4),
\* counted from 1) and adds exactly one road mesh, built from that group.
C10_LastCompleteGroup ==
    (BuildRan /\ Len(points) >= 4) =>
        /\ spline = LastGroup(points)
        /\ vertices = RingVertices(LastGroup(points), config.detail)
        /\ pc = "running" =>
              /\ Cardinality(RoadHandles(meshes)) = PriorRoads + 1
              /\ meshes[Len(meshes)] = RoadAsset(FlatMesh(vertices, triangles))

C10_Witness ==
    /\ pc = "running" /\ Len(points) = 8 /\ DistinctIndices(points)
    /\ points[1].index > points[8].index
    /\ spline = LastGroup(points)
    /\ spline # [k \in 1..4 |-> AtRank(points, k).translation]

====
